---- MODULE Spec2Model ----
(***************************************************************************)
(* A model of the vendored Kaitai Struct stream runtime                    *)
(* (albam/albam_vendor/kaitaistruct.py): the KaitaiStream bit accumulator, *)
(* the byte-sequence and numeric codecs and the write-back graph.          *)
(*                                                                         *)
(* Every method of KaitaiStream is an operator from a stream record (the   *)
(* object's fields, with the BytesIO behind it as the fields io and        *)
(* io_pos) to an outcome record [s, ret, err]: the stream after the call,   *)
(* the value returned and the exception raised (err.kind = "none" when the *)
(* call returns).  A call that raises keeps the side effects it had up to  *)
(* the raise.  The actions apply the methods to the streams of the state.  *)
(***************************************************************************)
EXTENDS Integers, Sequences, FiniteSets, TLC

VARIABLES
    streams,    \* stream id -> the KaitaiStream object's fields
    ret,        \* the value the last call returned
    err,        \* the exception the last call raised, NoErr when it returned
    call,       \* the last call: its name, its arguments, the stream before it
    log,        \* the write-back handlers the last finalize invoked, in order
    inp,        \* the inputs of the scenario, drawn in Init
    hist        \* the calls made so far, in order: [op, ok], ok when it returned

vars == <<streams, ret, err, call, log, inp, hist>>

-----------------------------------------------------------------------------
(* Bounds of the model *)

\* Longest backing store, in bytes.
MaxLen == 3
\* Bit widths 0..MaxBits are tried with every value.
MaxBits == 9
\* Calls that prepare the stream before the call a specification is about.
MaxSetup == 1
\* Bit widths MaxBits+1..WideBits are tried with sampled values.
WideBits == 23
\* Child streams that can be registered in the write-back graph.
MaxChildren == 2
\* Calls of write_back_child_streams on the root.
MaxFinalize == 2

\* Longest XOR key, in bytes.
MaxKey == 2

\* Calls made on the stream of SpecStream; fields of the layout of SpecPos.
MaxOps == 3

\* Largest rotation amount, in bits.
MaxAmount == 9

-----------------------------------------------------------------------------
(* Python integers: shifts and bitwise operators on non-negative ints *)

Shl(x, k) == x * (2 ^ k)

Shr(x, k) == x \div (2 ^ k)

RECURSIVE BitAnd(_, _)
BitAnd(a, b) ==
    IF a = 0 \/ b = 0 THEN 0
    ELSE (a % 2) * (b % 2) + 2 * BitAnd(a \div 2, b \div 2)

RECURSIVE BitOr(_, _)
BitOr(a, b) ==
    IF a = 0 THEN b
    ELSE IF b = 0 THEN a
    ELSE (IF (a % 2) + (b % 2) > 0 THEN 1 ELSE 0) + 2 * BitOr(a \div 2, b \div 2)

RECURSIVE BitXor(_, _)
BitXor(a, b) ==
    IF a = 0 THEN b
    ELSE IF b = 0 THEN a
    ELSE (((a % 2) + (b % 2)) % 2) + 2 * BitXor(a \div 2, b \div 2)

Min(a, b) == IF a <= b THEN a ELSE b

Byte == 0..255

RECURSIVE Repeat(_, _)
Repeat(b, k) == IF k <= 0 THEN <<>> ELSE <<b>> \o Repeat(b, k - 1)

Reverse(q) == [i \in 1..Len(q) |-> q[Len(q) + 1 - i]]

-----------------------------------------------------------------------------
(* Exceptions and outcomes *)

NoErr == [kind |-> "none", requested |-> 0, available |-> 0]

EOFError(n, avail) == [kind |-> "EOFError", requested |-> n, available |-> avail]

ValueError == [kind |-> "ValueError", requested |-> 0, available |-> 0]

TermNotFound == [kind |-> "Exception", requested |-> 0, available |-> 0]

\* io.seek() of a store that cannot seek.
UnsupportedOperation ==
    [kind |-> "UnsupportedOperation", requested |-> 0, available |-> 0]

None == "None"

Ok(s, r) == [s |-> s, ret |-> r, err |-> NoErr]

Raise(s, e) == [s |-> s, ret |-> None, err |-> e]

Failed(r) == r.err.kind # "none"

-----------------------------------------------------------------------------
(* The backing store: an in-memory BytesIO, io its bytes, io_pos its cursor *)

\* _size of a stream whose construction could not capture it.
NoSize == -1

\* io.read(n): the bytes from the cursor, at most n, the cursor after them.
io_read(s, n) ==
    LET from == s.io_pos + 1
        to == Min(s.io_pos + n, Len(s.io))
        r == IF from > to THEN <<>> ELSE SubSeq(s.io, from, to)
    IN  [s |-> [s EXCEPT !.io_pos = s.io_pos + Len(r)], r |-> r]

\* io.write(buf): buf over the bytes at the cursor, the store grown (zero
\* filled up to the cursor) when buf ends past its end.
io_write(s, buf) ==
    LET end == s.io_pos + Len(buf)
        newlen == IF Len(buf) = 0 THEN Len(s.io)
                  ELSE IF end > Len(s.io) THEN end ELSE Len(s.io)
        new == [i \in 1..newlen |->
                   IF i > s.io_pos /\ i <= end THEN buf[i - s.io_pos]
                   ELSE IF i <= Len(s.io) THEN s.io[i]
                   ELSE 0]
    IN  [s EXCEPT !.io = new, !.io_pos = end]

\* io.seek(n)
io_seek(s, n) == [s EXCEPT !.io_pos = n]

-----------------------------------------------------------------------------
(* KaitaiStream: construction and positioning *)

align_to_byte(s) == [s EXCEPT !.bits_left = 0, !.bits = 0]

\* size(): seeks to the end and back, the cursor is where it was.
size(s) == Len(s.io)

\* write_back_handler of a stream that was given none.
NoHandler == [pos |-> 0, kind |-> "none"]

\* KaitaiStream(io): a stream over the bytes io whose cursor is at p; _size
\* is captured only when the store can seek (io.seek raises on a store that
\* cannot); closed is io.closed.
KaitaiStream(io, p, seekable) ==
    [io |-> io, io_pos |-> p, seekable |-> seekable,
     bits_left |-> 0, bits |-> 0,
     bits_le |-> FALSE, bits_write_mode |-> FALSE,
     write_back_handler |-> NoHandler, child_streams |-> <<>>,
     _size |-> IF seekable THEN Len(io) ELSE NoSize,
     closed |-> FALSE]

\* pos() that reports the store cursor alone.
pos_cursor_only(s) == s.io_pos

pos(s) == s.io_pos + (IF s.bits_write_mode /\ s.bits_left > 0 THEN 1 ELSE 0)

-----------------------------------------------------------------------------
(* Reading *)

\* The request size from which _read_bytes_not_aligned checks first.
LargeRead == 8 * 1024 * 1024

\* _read_bytes_not_aligned with the comparison n <= num_bytes_available off
\* by one.
_read_bytes_not_aligned_off_by_one(s, n) ==
    IF n < 0 THEN Raise(s, ValueError)
    ELSE
      LET rd == io_read(s, n)
      IN  IF n > Len(rd.r) + 1 THEN Raise(rd.s, EOFError(n, Len(rd.r)))
          ELSE Ok(rd.s, rd.r)

_read_bytes_not_aligned(s, n) ==
    IF n < 0 THEN Raise(s, ValueError)
    ELSE
      LET precheck == n >= LargeRead /\ s.seekable
          avail0 == size(s) - pos(s)
          sat0 == IF precheck THEN n <= avail0 ELSE TRUE
          rd == io_read(s, n)
          s1 == IF sat0 THEN rd.s ELSE s
          avail == IF sat0 THEN Len(rd.r) ELSE avail0
          sat == IF sat0 THEN n <= avail ELSE FALSE
      IN  IF ~sat THEN Raise(s1, EOFError(n, avail))
          ELSE Ok(s1, rd.r)

\* read_bytes without the align_to_byte before the read.
read_bytes_no_align(s, n) == _read_bytes_not_aligned(s, n)

read_bytes(s, n) == _read_bytes_not_aligned(align_to_byte(s), n)

read_bytes_full(s) ==
    LET rd == io_read(align_to_byte(s), Len(s.io))
    IN  Ok(rd.s, rd.r)

\* The loop of read_bytes_term: r the bytes accumulated so far.
RECURSIVE read_bytes_term_loop(_, _, _, _, _, _)
read_bytes_term_loop(s, r, term, include_term, consume_term, eos_error) ==
    LET rd == io_read(s, 1)
        c == rd.r
    IN  IF c = <<>> THEN
            IF eos_error THEN Raise(rd.s, TermNotFound) ELSE Ok(rd.s, r)
        ELSE IF c[1] = term THEN
            Ok(IF ~consume_term THEN io_seek(rd.s, rd.s.io_pos - 1) ELSE rd.s,
               IF include_term THEN r \o c ELSE r)
        ELSE read_bytes_term_loop(rd.s, r \o c, term, include_term,
                                  consume_term, eos_error)

\* read_bytes_term with include_term and consume_term taken for each other.
read_bytes_term_flags_swapped(s, term, include_term, consume_term, eos_error) ==
    read_bytes_term_loop(align_to_byte(s), <<>>, term, consume_term,
                         include_term, eos_error)

\* read_bytes_term that never raises at the end of the stream.
read_bytes_term_never_raises(s, term, include_term, consume_term, eos_error) ==
    read_bytes_term_loop(align_to_byte(s), <<>>, term, include_term,
                         consume_term, FALSE)

read_bytes_term(s, term, include_term, consume_term, eos_error) ==
    read_bytes_term_loop(align_to_byte(s), <<>>, term, include_term,
                         consume_term, eos_error)

\* raise Exception("unexpected fixed contents: got %r, was waiting for %r"):
\* the message holds both byte strings.
ContentMismatch(actual, expected) ==
    [kind |-> "Exception", requested |-> 0, available |-> 0,
     actual |-> actual, expected |-> expected]

\* ensure_fixed_contents that accepts a short read of a prefix of expected.
ensure_fixed_contents_prefix(s, expected) ==
    LET rd == io_read(s, Len(expected))
    IN  IF rd.r # SubSeq(expected, 1, Len(rd.r))
        THEN Raise(rd.s, ContentMismatch(rd.r, expected))
        ELSE Ok(rd.s, rd.r)

ensure_fixed_contents(s, expected) ==
    LET rd == io_read(s, Len(expected))
    IN  IF rd.r # expected THEN Raise(rd.s, ContentMismatch(rd.r, expected))
        ELSE Ok(rd.s, rd.r)

\* res = res << 8 | byte over the bytes of buf, first byte first.
RECURSIVE FoldBe(_, _)
FoldBe(res, buf) ==
    IF buf = <<>> THEN res
    ELSE FoldBe(BitOr(Shl(res, 8), Head(buf)), Tail(buf))

\* res |= byte << (i * 8) over the bytes of buf, i from 0.
RECURSIVE FoldLe(_)
FoldLe(buf) ==
    IF buf = <<>> THEN 0
    ELSE BitOr(Head(buf), Shl(FoldLe(Tail(buf)), 8))

\* read_bits_int_be that sets bits_left only when it reads bytes.
read_bits_int_be_keeps_bits_left(s, n) ==
    LET s0 == [s EXCEPT !.bits_write_mode = FALSE]
        bits_needed == n - s0.bits_left
    IN  IF bits_needed > 0 THEN
            LET bytes_needed == ((bits_needed - 1) \div 8) + 1
                rd == _read_bytes_not_aligned(
                          [s0 EXCEPT !.bits_left = (-bits_needed) % 8],
                          bytes_needed)
            IN  IF Failed(rd) THEN rd
                ELSE
                  LET new_bits == FoldBe(0, rd.ret)
                      res == BitOr(Shr(new_bits, rd.s.bits_left),
                                   Shl(rd.s.bits, bits_needed))
                      mask == Shl(1, rd.s.bits_left) - 1
                  IN  Ok([rd.s EXCEPT !.bits = BitAnd(new_bits, mask)], res)
        ELSE Ok(s0, Shr(s0.bits, -bits_needed))

\* read_bits_int_be that drops the bits left over by the read before.
read_bits_int_be_drops_leftover(s, n) ==
    LET s0 == [s EXCEPT !.bits_write_mode = FALSE]
        bits_needed == n - s0.bits_left
        s1 == [s0 EXCEPT !.bits_left = (-bits_needed) % 8]
    IN  IF bits_needed > 0 THEN
            LET bytes_needed == ((bits_needed - 1) \div 8) + 1
                rd == _read_bytes_not_aligned(s1, bytes_needed)
            IN  IF Failed(rd) THEN rd
                ELSE
                  LET new_bits == FoldBe(0, rd.ret)
                      res == Shr(new_bits, rd.s.bits_left)
                      mask == Shl(1, rd.s.bits_left) - 1
                  IN  Ok([rd.s EXCEPT !.bits = BitAnd(new_bits, mask)], res)
        ELSE
            LET res == Shr(s1.bits, -bits_needed)
                mask == Shl(1, s1.bits_left) - 1
            IN  Ok([s1 EXCEPT !.bits = BitAnd(s1.bits, mask)], res)

read_bits_int_be(s, n) ==
    LET s0 == [s EXCEPT !.bits_write_mode = FALSE]
        bits_needed == n - s0.bits_left
        s1 == [s0 EXCEPT !.bits_left = (-bits_needed) % 8]
    IN  IF bits_needed > 0 THEN
            LET bytes_needed == ((bits_needed - 1) \div 8) + 1
                rd == _read_bytes_not_aligned(s1, bytes_needed)
            IN  IF Failed(rd) THEN rd
                ELSE
                  LET new_bits == FoldBe(0, rd.ret)
                      res == BitOr(Shr(new_bits, rd.s.bits_left),
                                   Shl(rd.s.bits, bits_needed))
                      mask == Shl(1, rd.s.bits_left) - 1
                  IN  Ok([rd.s EXCEPT !.bits = BitAnd(new_bits, mask)], res)
        ELSE
            LET res == Shr(s1.bits, -bits_needed)
                mask == Shl(1, s1.bits_left) - 1
            IN  Ok([s1 EXCEPT !.bits = BitAnd(s1.bits, mask)], res)

\* read_bits_int_le with -(bits_needed % 8) for -bits_needed % 8.
read_bits_int_le_negated_remainder(s, n) ==
    LET s0 == [s EXCEPT !.bits_write_mode = FALSE]
        bits_needed == n - s0.bits_left
        mask == Shl(1, n) - 1
    IN  IF bits_needed > 0 THEN
            LET bytes_needed == ((bits_needed - 1) \div 8) + 1
                rd == _read_bytes_not_aligned(s0, bytes_needed)
            IN  IF Failed(rd) THEN rd
                ELSE
                  LET res0 == FoldLe(rd.ret)
                      res == BitOr(Shl(res0, rd.s.bits_left), rd.s.bits)
                  IN  Ok([rd.s EXCEPT !.bits = Shr(res0, bits_needed),
                                      !.bits_left = -(bits_needed % 8)],
                         BitAnd(res, mask))
        ELSE
            Ok([s0 EXCEPT !.bits = Shr(s0.bits, n),
                          !.bits_left = -(bits_needed % 8)],
               BitAnd(s0.bits, mask))

\* read_bits_int_le that returns the accumulated value without the mask.
read_bits_int_le_no_mask(s, n) ==
    LET s0 == [s EXCEPT !.bits_write_mode = FALSE]
        bits_needed == n - s0.bits_left
    IN  IF bits_needed > 0 THEN
            LET bytes_needed == ((bits_needed - 1) \div 8) + 1
                rd == _read_bytes_not_aligned(s0, bytes_needed)
            IN  IF Failed(rd) THEN rd
                ELSE
                  LET res0 == FoldLe(rd.ret)
                      new_bits == Shr(res0, bits_needed)
                      res == BitOr(Shl(res0, rd.s.bits_left), rd.s.bits)
                  IN  Ok([rd.s EXCEPT !.bits = new_bits,
                                      !.bits_left = (-bits_needed) % 8],
                         res)
        ELSE
            Ok([s0 EXCEPT !.bits = Shr(s0.bits, n),
                          !.bits_left = (-bits_needed) % 8],
               s0.bits)

read_bits_int_le(s, n) ==
    LET s0 == [s EXCEPT !.bits_write_mode = FALSE]
        bits_needed == n - s0.bits_left
        mask == Shl(1, n) - 1
    IN  IF bits_needed > 0 THEN
            LET bytes_needed == ((bits_needed - 1) \div 8) + 1
                rd == _read_bytes_not_aligned(s0, bytes_needed)
            IN  IF Failed(rd) THEN rd
                ELSE
                  LET res0 == FoldLe(rd.ret)
                      new_bits == Shr(res0, bits_needed)
                      res == BitOr(Shl(res0, rd.s.bits_left), rd.s.bits)
                  IN  Ok([rd.s EXCEPT !.bits = new_bits,
                                      !.bits_left = (-bits_needed) % 8],
                         BitAnd(res, mask))
        ELSE
            Ok([s0 EXCEPT !.bits = Shr(s0.bits, n),
                          !.bits_left = (-bits_needed) % 8],
               BitAnd(s0.bits, mask))

-----------------------------------------------------------------------------
(* Writing *)

\* _ensure_bytes_left_to_write that lets one byte too many through.
_ensure_bytes_left_to_write_one_more(s, n, p) ==
    IF s._size = NoSize THEN ValueError
    ELSE LET num_bytes_left == s._size - p
         IN  IF n > num_bytes_left + 1 THEN EOFError(n, num_bytes_left)
             ELSE NoErr

\* The exception _ensure_bytes_left_to_write(n, pos) raises, NoErr when none.
_ensure_bytes_left_to_write(s, n, p) ==
    IF s._size = NoSize THEN ValueError
    ELSE LET num_bytes_left == s._size - p
         IN  IF n > num_bytes_left THEN EOFError(n, num_bytes_left) ELSE NoErr

_write_bytes_not_aligned(s, buf) ==
    LET e == _ensure_bytes_left_to_write(s, Len(buf), s.io_pos)
    IN  IF e # NoErr THEN Raise(s, e) ELSE Ok(io_write(s, buf), None)

\* write_align_to_byte without the shift that left-aligns big-endian bits.
write_align_to_byte_no_shift(s) ==
    IF s.bits_left > 0 THEN
        LET s1 == align_to_byte(s)
        IN  IF s.bits \notin Byte THEN Raise(s1, ValueError)
            ELSE _write_bytes_not_aligned(s1, <<s.bits>>)
    ELSE Ok(s, None)

\* write_align_to_byte that clears the bits only once the byte is written.
write_align_to_byte_clear_after(s) ==
    IF s.bits_left > 0 THEN
        LET b == IF ~s.bits_le THEN Shl(s.bits, 8 - s.bits_left) ELSE s.bits
            w == _write_bytes_not_aligned(s, <<b>>)
        IN  IF b \notin Byte THEN Raise(s, ValueError)
            ELSE IF Failed(w) THEN w
            ELSE Ok(align_to_byte(w.s), None)
    ELSE Ok(s, None)

\* write_align_to_byte that left-aligns the bits in both bit orders.
write_align_to_byte_shift_always(s) ==
    IF s.bits_left > 0 THEN
        LET b == Shl(s.bits, 8 - s.bits_left)
            s1 == align_to_byte(s)
        IN  IF b \notin Byte THEN Raise(s1, ValueError)
            ELSE _write_bytes_not_aligned(s1, <<b>>)
    ELSE Ok(s, None)

write_align_to_byte(s) ==
    IF s.bits_left > 0 THEN
        LET b == IF ~s.bits_le THEN Shl(s.bits, 8 - s.bits_left) ELSE s.bits
            s1 == align_to_byte(s)
        IN  IF b \notin Byte THEN Raise(s1, ValueError)
            ELSE _write_bytes_not_aligned(s1, <<b>>)
    ELSE Ok(s, None)

\* buf[i] = val & 0xff; val >>= 8 for i from k - 1 down to 0.
BufBe(val, k) == [i \in 1..k |-> BitAnd(Shr(val, 8 * (k - i)), 255)]

\* buf[i] = val & 0xff; val >>= 8 for i from 0 up to k - 1.
BufLe(val, k) == [i \in 1..k |-> BitAnd(Shr(val, 8 * (i - 1)), 255)]

\* write_bits_int_be that asks for room for the whole bytes it writes only,
\* not for the byte of the bits it leaves pending.
write_bits_int_be_whole_bytes(s, n, val0) ==
    LET s0 == [s EXCEPT !.bits_le = FALSE, !.bits_write_mode = TRUE]
        val == BitAnd(val0, Shl(1, n) - 1)
        bits_to_write == s0.bits_left + n
        bytes_to_write == bits_to_write \div 8
        e == _ensure_bytes_left_to_write(s0, bytes_to_write, s0.io_pos)
        s1 == [s0 EXCEPT !.bits_left = bits_to_write % 8]
    IN  IF e # NoErr THEN Raise(s0, e)
        ELSE IF bytes_to_write > 0 THEN
            LET mask == Shl(1, s1.bits_left) - 1
                new_bits == BitAnd(val, mask)
                val2 == BitOr(Shr(val, s1.bits_left),
                              Shl(s0.bits, n - s1.bits_left))
            IN  _write_bytes_not_aligned([s1 EXCEPT !.bits = new_bits],
                                         BufBe(val2, bytes_to_write))
        ELSE Ok([s1 EXCEPT !.bits = BitOr(Shl(s0.bits, n), val)], None)

write_bits_int_be(s, n, val0) ==
    LET s0 == [s EXCEPT !.bits_le = FALSE, !.bits_write_mode = TRUE]
        val == BitAnd(val0, Shl(1, n) - 1)
        bits_to_write == s0.bits_left + n
        bytes_needed == ((bits_to_write - 1) \div 8) + 1
        e == _ensure_bytes_left_to_write(
                 s0, bytes_needed - (IF s0.bits_left > 0 THEN 1 ELSE 0), pos(s0))
        bytes_to_write == bits_to_write \div 8
        s1 == [s0 EXCEPT !.bits_left = bits_to_write % 8]
    IN  IF e # NoErr THEN Raise(s0, e)
        ELSE IF bytes_to_write > 0 THEN
            LET mask == Shl(1, s1.bits_left) - 1
                new_bits == BitAnd(val, mask)
                val2 == BitOr(Shr(val, s1.bits_left),
                              Shl(s0.bits, n - s1.bits_left))
            IN  _write_bytes_not_aligned([s1 EXCEPT !.bits = new_bits],
                                         BufBe(val2, bytes_to_write))
        ELSE Ok([s1 EXCEPT !.bits = BitOr(Shl(s0.bits, n), val)], None)

write_bits_int_le(s, n, val) ==
    LET s0 == [s EXCEPT !.bits_le = TRUE, !.bits_write_mode = TRUE]
        bits_to_write == s0.bits_left + n
        bytes_needed == ((bits_to_write - 1) \div 8) + 1
        e == _ensure_bytes_left_to_write(
                 s0, bytes_needed - (IF s0.bits_left > 0 THEN 1 ELSE 0), pos(s0))
        bytes_to_write == bits_to_write \div 8
        old_bits_left == s0.bits_left
        s1 == [s0 EXCEPT !.bits_left = bits_to_write % 8]
        mask == Shl(1, s1.bits_left) - 1
    IN  IF e # NoErr THEN Raise(s0, e)
        ELSE IF bytes_to_write > 0 THEN
            LET new_bits == Shr(val, n - s1.bits_left)
                val2 == BitOr(Shl(val, old_bits_left), s0.bits)
                w == _write_bytes_not_aligned([s1 EXCEPT !.bits = new_bits],
                                              BufLe(val2, bytes_to_write))
            IN  IF Failed(w) THEN w
                ELSE Ok([w.s EXCEPT !.bits = BitAnd(new_bits, mask)], None)
        ELSE Ok([s1 EXCEPT !.bits =
                     BitAnd(BitOr(s0.bits, Shl(val, old_bits_left)), mask)],
                None)

write_bytes(s, buf) ==
    LET a == write_align_to_byte(s)
    IN  IF Failed(a) THEN a ELSE _write_bytes_not_aligned(a.s, buf)

seek(s, n) ==
    LET a == IF s.bits_write_mode THEN write_align_to_byte(s)
             ELSE Ok(align_to_byte(s), None)
    IN  IF Failed(a) THEN a
        ELSE IF ~a.s.seekable THEN Raise(a.s, UnsupportedOperation)
        ELSE IF n < 0 THEN Raise(a.s, ValueError)
        ELSE Ok(io_seek(a.s, n), None)

\* close() without the try/finally: the store is closed only when the flush
\* returns.
close_no_finally(s) ==
    LET a == IF s.bits_write_mode THEN write_align_to_byte(s) ELSE Ok(s, None)
    IN  IF Failed(a) THEN a ELSE [a EXCEPT !.s.closed = TRUE]

\* close(): the flush in write mode, and io.close() in the finally clause.
close(s) ==
    LET a == IF s.bits_write_mode THEN write_align_to_byte(s) ELSE Ok(s, None)
    IN  [a EXCEPT !.s.closed = TRUE]

-----------------------------------------------------------------------------
(* Numeric codec: struct.Struct packers over Python integers.               *)
(* A Python int is [neg, mag]: its sign and the base-256 digits of its      *)
(* magnitude, least significant first, without leading zero digits (zero    *)
(* is [neg |-> FALSE, mag |-> <<>>]).  A kind is [signed, width, be].       *)

StructError == [kind |-> "struct.error", requested |-> 0, available |-> 0]

RECURSIVE Canon(_)
Canon(q) ==
    IF q = <<>> THEN <<>>
    ELSE IF q[Len(q)] = 0 THEN Canon(SubSeq(q, 1, Len(q) - 1))
    ELSE q

RECURSIVE Digits(_)
Digits(i) == IF i = 0 THEN <<>> ELSE <<i % 256>> \o Digits(i \div 256)

\* The Python int of a model integer.
PyInt(i) == [neg |-> i < 0, mag |-> Digits(IF i < 0 THEN -i ELSE i)]

RECURSIVE AddCarry(_, _)
AddCarry(q, c) ==
    IF q = <<>> THEN <<>>
    ELSE <<(Head(q) + c) % 256>> \o AddCarry(Tail(q), (Head(q) + c) \div 256)

\* Two's complement negation of a fixed-width little-endian digit string.
TwosNeg(q) == AddCarry([i \in 1..Len(q) |-> 255 - q[i]], 1)

ZeroExtend(q, w) == q \o Repeat(0, w - Len(q))

AllZero(q) == \A i \in 1..Len(q) : q[i] = 0

\* Whether v is in the range of the kind: struct.pack raises when not.
Representable(kind, v) ==
    LET w == kind.width
        m == ZeroExtend(v.mag, w)
    IN  /\ Len(v.mag) <= w
        /\ ~kind.signed => ~v.neg
        /\ (kind.signed /\ ~v.neg) => m[w] < 128
        /\ (kind.signed /\ v.neg) =>
              \/ m[w] < 128
              \/ m[w] = 128 /\ AllZero(SubSeq(m, 1, w - 1))

\* packer.pack(v): the width bytes of v, two's complement, in the kind's order.
pack(kind, v) ==
    LET m == ZeroExtend(v.mag, kind.width)
        le == IF v.neg THEN TwosNeg(m) ELSE m
    IN  IF kind.be THEN Reverse(le) ELSE le

\* unpack that reads every kind as unsigned.
unpack_unsigned(kind, buf) ==
    [neg |-> FALSE, mag |-> Canon(IF kind.be THEN Reverse(buf) ELSE buf)]

\* packer.unpack(buf)[0]
unpack(kind, buf) ==
    LET le == IF kind.be THEN Reverse(buf) ELSE buf
        negative == kind.signed /\ le[kind.width] >= 128
    IN  [neg |-> negative,
         mag |-> Canon(IF negative THEN TwosNeg(le) ELSE le)]

\* read_s1 .. read_u8le
read_int(s, kind) ==
    LET r == read_bytes(s, kind.width)
    IN  IF Failed(r) THEN r ELSE Ok(r.s, unpack(kind, r.ret))

\* write_s1 .. write_u8le
write_int(s, kind, v) ==
    IF ~Representable(kind, v) THEN Raise(s, StructError)
    ELSE write_bytes(s, pack(kind, v))

U1 == [signed |-> FALSE, width |-> 1, be |-> FALSE]

write_u1(s, v) == write_int(s, U1, PyInt(v))

\* for _ in range(pad_len): self.write_u1(pad_byte)
RECURSIVE write_pad(_, _, _)
write_pad(s, pad_len, pad_byte) ==
    IF pad_len <= 0 THEN Ok(s, None)
    ELSE LET w == write_u1(s, pad_byte)
         IN  IF Failed(w) THEN w ELSE write_pad(w.s, pad_len - 1, pad_byte)

\* write_bytes_limit that pads without writing the terminator.
write_bytes_limit_no_terminator(s, buf, sz, term, pad_byte) ==
    LET n == Len(buf)
        w == write_bytes(s, buf)
    IN  IF Failed(w) THEN w
        ELSE IF n < sz THEN write_pad(w.s, sz - n, pad_byte)
        ELSE IF n > sz THEN Raise(w.s, ValueError)
        ELSE w

\* write_bytes_limit that rejects an oversize buf before writing it.
write_bytes_limit_checks_first(s, buf, sz, term, pad_byte) ==
    LET n == Len(buf)
        w == write_bytes(s, buf)
    IN  IF n > sz THEN Raise(s, ValueError)
        ELSE IF Failed(w) THEN w
        ELSE IF n < sz THEN
            LET t == write_u1(w.s, term)
            IN  IF Failed(t) THEN t ELSE write_pad(t.s, sz - n - 1, pad_byte)
        ELSE w

write_bytes_limit(s, buf, sz, term, pad_byte) ==
    LET n == Len(buf)
        w == write_bytes(s, buf)
    IN  IF Failed(w) THEN w
        ELSE IF n < sz THEN
            LET t == write_u1(w.s, term)
            IN  IF Failed(t) THEN t ELSE write_pad(t.s, sz - n - 1, pad_byte)
        ELSE IF n > sz THEN Raise(w.s, ValueError)
        ELSE w

-----------------------------------------------------------------------------
(* Actions: one call of a method on the stream id.  A call made to prepare *)
(* the stream has role "setup"; a call a specification is about has role   *)
(* "test" and ends the scenario of the specifications that use roles.      *)

Do(id, name, role, args, r) ==
    /\ streams' = [streams EXCEPT ![id] = r.s]
    /\ ret' = r.ret
    /\ err' = r.err
    /\ call' = [op |-> name, id |-> id, role |-> role, args |-> args,
                pre |-> streams[id]]
    /\ hist' = Append(hist, [op |-> name, ok |-> ~Failed(r)])
    /\ UNCHANGED <<log, inp>>

NoArgs == [none |-> TRUE]

ReadBytes(id, role, n) ==
    Do(id, "read_bytes", role, [n |-> n], read_bytes(streams[id], n))

ReadBytesTerm(id, role, term, include_term, consume_term, eos_error) ==
    Do(id, "read_bytes_term", role,
       [term |-> term, include_term |-> include_term,
        consume_term |-> consume_term, eos_error |-> eos_error],
       read_bytes_term(streams[id], term, include_term, consume_term, eos_error))

EnsureFixedContents(id, role, expected) ==
    Do(id, "ensure_fixed_contents", role, [expected |-> expected],
       ensure_fixed_contents(streams[id], expected))

AlignToByte(id, role) ==
    Do(id, "align_to_byte", role, NoArgs, Ok(align_to_byte(streams[id]), None))

Close(id, role) == Do(id, "close", role, NoArgs, close(streams[id]))

ReadBitsIntBe(id, role, n) ==
    Do(id, "read_bits_int_be", role, [n |-> n], read_bits_int_be(streams[id], n))

ReadBitsIntLe(id, role, n) ==
    Do(id, "read_bits_int_le", role, [n |-> n], read_bits_int_le(streams[id], n))

WriteBitsIntBe(id, role, n, val) ==
    Do(id, "write_bits_int_be", role, [n |-> n, val |-> val],
       write_bits_int_be(streams[id], n, val))

WriteBitsIntLe(id, role, n, val) ==
    Do(id, "write_bits_int_le", role, [n |-> n, val |-> val],
       write_bits_int_le(streams[id], n, val))

WriteAlignToByte(id, role) ==
    Do(id, "write_align_to_byte", role, NoArgs, write_align_to_byte(streams[id]))

Seek(id, role, n) ==
    Do(id, "seek", role, [n |-> n], seek(streams[id], n))

WriteBytes(id, role, buf) ==
    Do(id, "write_bytes", role, [buf |-> buf], write_bytes(streams[id], buf))

WriteBytesLimit(id, role, buf, sz, term, pad_byte) ==
    Do(id, "write_bytes_limit", role,
       [buf |-> buf, size |-> sz, term |-> term, pad_byte |-> pad_byte],
       write_bytes_limit(streams[id], buf, sz, term, pad_byte))

ReadInt(id, role, kind) ==
    Do(id, "read_int", role, [kind |-> kind], read_int(streams[id], kind))

WriteInt(id, role, kind, v) ==
    Do(id, "write_int", role, [kind |-> kind, v |-> v],
       write_int(streams[id], kind, v))

\* KaitaiStream(BytesIO(bytes)) over the bytes of the stream id, cursor at p.
Reopen(id, role, p) ==
    Do(id, "__init__", role, [p |-> p],
       Ok(KaitaiStream(streams[id].io, p, TRUE), None))

-----------------------------------------------------------------------------
(* Inputs *)

\* The byte strings of length 0..k over the bytes of alphabet.
RECURSIVE Strings(_, _)
Strings(alphabet, k) ==
    IF k = 0 THEN {<<>>}
    ELSE LET shorter == Strings(alphabet, k - 1)
         IN  shorter \cup {Append(q, b) : q \in {x \in shorter : Len(x) = k - 1},
                                          b \in alphabet}

\* Store contents: 65 is the terminator looked for, 0 and 65 both occur.
StoreBytes == {0, 65}

Stores == Strings(StoreBytes, MaxLen)

\* The buffer 1, 2, .., k: bytes that are neither store bytes nor padding.
Pattern(k) == [i \in 1..k |-> i]

NoCall == [op |-> "none", id |-> "io", role |-> "setup", args |-> NoArgs,
           pre |-> None]

\* A stream just constructed over any store, its cursor anywhere in it.
InitOne ==
    /\ \E io \in Stores : \E p \in 0..Len(io) :
           streams = [id \in {"io"} |-> KaitaiStream(io, p, TRUE)]
    /\ ret = None
    /\ err = NoErr
    /\ call = NoCall
    /\ log = <<>>
    /\ hist = <<>>

-----------------------------------------------------------------------------
(* Spec: the byte-sequence codec.  After at most MaxSetup preparing calls   *)
(* (bit reads and writes that leave bits pending, seeks) one call of        *)
(* read_bytes, read_bytes_term or write_bytes_limit is made.                *)

Init == InitOne /\ inp = None

Setup ==
    /\ call.role = "setup"
    /\ Len(hist) < MaxSetup
    /\ \/ ReadBitsIntBe("io", "setup", 3)
       \/ ReadBitsIntLe("io", "setup", 3)
       \/ WriteBitsIntBe("io", "setup", 3, 5)
       \/ WriteBitsIntLe("io", "setup", 3, 5)
       \/ \E n \in {1, MaxLen + 1} : Seek("io", "setup", n)

TestReadBytes ==
    /\ call.role = "setup"
    /\ \E n \in (0..(MaxLen + 1)) \cup {LargeRead} : ReadBytes("io", "test", n)

TestReadBytesTerm ==
    /\ call.role = "setup"
    /\ \E term \in StoreBytes, include_term \in BOOLEAN,
          consume_term \in BOOLEAN, eos_error \in BOOLEAN :
          ReadBytesTerm("io", "test", term, include_term, consume_term, eos_error)

TestWriteBytesLimit ==
    /\ call.role = "setup"
    /\ \E k \in 0..MaxLen, sz \in 0..MaxLen :
          WriteBytesLimit("io", "test", Pattern(k), sz, 0, 255)

TestEnsureFixedContents ==
    /\ call.role = "setup"
    /\ \E expected \in Stores : EnsureFixedContents("io", "test", expected)

Next ==
    Setup \/ TestReadBytes \/ TestReadBytesTerm \/ TestWriteBytesLimit
        \/ TestEnsureFixedContents

Spec == Init /\ [][Next]_vars

-----------------------------------------------------------------------------
(* Claims on the byte-sequence codec, under Spec *)

io == streams["io"]

\* The bytes of the store q after cursor c (none when the cursor is past it).
Remaining(q, c) == IF c >= Len(q) THEN <<>> ELSE SubSeq(q, c + 1, Len(q))

\* The 1-based index of the first b in q after cursor c, 0 when there is none.
FirstAfter(q, c, b) ==
    IF \E i \in (c + 1)..Len(q) : q[i] = b
    THEN CHOOSE i \in (c + 1)..Len(q) :
             q[i] = b /\ \A j \in (c + 1)..(i - 1) : q[j] # b
    ELSE 0

\* C3: read_bytes(n) with exactly n bytes after the cursor returns those n
\* bytes; read_bytes(n + 1) with n bytes after the cursor raises EOFError
\* reporting requested n + 1 and available n.
C3_ReadBytesExactOrEof ==
    call.op = "read_bytes" =>
        LET rest == Remaining(call.pre.io, call.pre.io_pos)
        IN  /\ call.args.n = Len(rest) =>
                /\ err = NoErr
                /\ ret = rest
                /\ io.io_pos = call.pre.io_pos + Len(rest)
            /\ call.args.n = Len(rest) + 1 =>
                err = EOFError(Len(rest) + 1, Len(rest))

C3_Witness ==
    /\ call.op = "read_bytes"
    /\ call.pre.io_pos < Len(call.pre.io)
    /\ call.pre.bits_left > 0
    /\ call.args.n = Len(call.pre.io) - call.pre.io_pos + 1
    /\ err.kind = "EOFError"

\* C4: read_bytes_term with the terminator at or after the cursor, first at
\* index i: returns the bytes from the cursor up to i, then the terminator
\* iff include_term, and leaves the cursor after the terminator iff
\* consume_term, on it otherwise.
C4_ReadBytesTermFound ==
    (call.op = "read_bytes_term"
       /\ FirstAfter(call.pre.io, call.pre.io_pos, call.args.term) > 0) =>
        LET i == FirstAfter(call.pre.io, call.pre.io_pos, call.args.term)
            upto == IF call.pre.io_pos + 1 > i - 1 THEN <<>>
                    ELSE SubSeq(call.pre.io, call.pre.io_pos + 1, i - 1)
        IN  /\ err = NoErr
            /\ ret = upto \o (IF call.args.include_term
                              THEN <<call.args.term>> ELSE <<>>)
            /\ io.io_pos = IF call.args.consume_term THEN i ELSE i - 1
            /\ io.io = call.pre.io

C4_Witness ==
    /\ call.op = "read_bytes_term"
    /\ FirstAfter(call.pre.io, call.pre.io_pos, call.args.term)
           > call.pre.io_pos + 1
    /\ call.args.include_term
    /\ ~call.args.consume_term
    /\ Len(ret) >= 2

\* C5: read_bytes_term with no terminator between the cursor (inside the
\* store) and the end of the store: it returns all remaining bytes and
\* leaves the cursor at the end when eos_error is false, and raises when
\* eos_error is true.
C5_ReadBytesTermMissing ==
    (call.op = "read_bytes_term"
       /\ call.pre.io_pos <= Len(call.pre.io)
       /\ FirstAfter(call.pre.io, call.pre.io_pos, call.args.term) = 0) =>
        IF call.args.eos_error
        THEN err = TermNotFound /\ ret = None
        ELSE /\ err = NoErr
             /\ ret = Remaining(call.pre.io, call.pre.io_pos)
             /\ io.io_pos = Len(call.pre.io)

C5_Witness ==
    /\ call.op = "read_bytes_term"
    /\ FirstAfter(call.pre.io, call.pre.io_pos, call.args.term) = 0
    /\ ~call.args.eos_error
    /\ Len(ret) >= 2
    /\ err = NoErr

\* The stream has no bits pending from a bit read: it is byte-aligned or in
\* a write pass.
InWritePass(s) == s.bits_left = 0 \/ s.bits_write_mode

\* C6: write_bytes_limit(buf, size, term, pad_byte) in a write pass, with
\* room for size bytes from pos(): when len(buf) < size the size bytes from
\* pos() are buf, one terminator, then size - len(buf) - 1 pad bytes; when
\* len(buf) = size they are buf alone; pos() advances by exactly size and
\* no byte from the new cursor on changes.
C6_WriteBytesLimitLayout ==
    (call.op = "write_bytes_limit"
       /\ InWritePass(call.pre)
       /\ Len(call.args.buf) <= call.args.size
       /\ call.pre._size - pos(call.pre) >= call.args.size) =>
        LET p == pos(call.pre)
            n == Len(call.args.buf)
            sz == call.args.size
            expected == IF n < sz
                        THEN call.args.buf \o <<call.args.term>>
                                 \o Repeat(call.args.pad_byte, sz - n - 1)
                        ELSE call.args.buf
        IN  /\ err = NoErr
            /\ Len(expected) = sz
            /\ pos(io) = p + sz
            /\ io.io_pos = p + sz
            /\ Len(io.io) = Len(call.pre.io)
            /\ \A i \in 1..sz : io.io[p + i] = expected[i]
            /\ \A i \in 1..Len(io.io) :
                   (i <= call.pre.io_pos \/ i > p + sz) => io.io[i] = call.pre.io[i]

C6_Witness ==
    /\ call.op = "write_bytes_limit"
    /\ Len(call.args.buf) = 1
    /\ call.args.size = 3
    /\ err = NoErr
    /\ SubSeq(io.io, io.io_pos - 2, io.io_pos) = <<1, 0, 255>>

\* C26: write_bytes_limit(buf, size, term, pad_byte) with len(buf) > size, in
\* a write pass with room for buf from pos(), raises ValueError after buf is
\* written: the len(buf) bytes from pos() are buf, the cursor is right after
\* them, and no other byte from pos() on changed.
C26_OversizeWrittenThenRaises ==
    (call.op = "write_bytes_limit"
       /\ InWritePass(call.pre)
       /\ Len(call.args.buf) > call.args.size
       /\ call.pre._size - pos(call.pre) >= Len(call.args.buf)) =>
        LET p == pos(call.pre)
            n == Len(call.args.buf)
        IN  /\ err = ValueError
            /\ io.io_pos = p + n
            /\ pos(io) = p + n
            /\ Len(io.io) = Len(call.pre.io)
            /\ \A i \in 1..n : io.io[p + i] = call.args.buf[i]
            /\ \A i \in 1..Len(io.io) :
                   (i <= call.pre.io_pos \/ i > p + n) => io.io[i] = call.pre.io[i]

\* Two bytes given for a field of one, with a third byte after them in the
\* store: both were written and the third is as it was.
C26_Witness ==
    /\ call.op = "write_bytes_limit"
    /\ call.args.buf = <<1, 2>>
    /\ call.args.size = 1
    /\ err = ValueError
    /\ call.pre.io = <<65, 65, 65>>
    /\ call.pre.io_pos = 0
    /\ io.io = <<1, 2, 65>>
    /\ io.io_pos = 2

\* C11: ensure_fixed_contents(expected) reads len(expected) bytes at the
\* cursor (fewer when the store ends); it returns them when they equal
\* expected, and otherwise raises an exception that holds the bytes read and
\* expected, also when fewer than len(expected) bytes were left.
C11_EnsureFixedContents ==
    call.op = "ensure_fixed_contents" =>
        LET expected == call.args.expected
            rest == Remaining(call.pre.io, call.pre.io_pos)
            actual == SubSeq(rest, 1, Min(Len(expected), Len(rest)))
        IN  /\ io.io_pos = call.pre.io_pos + Len(actual)
            /\ io.io = call.pre.io
            /\ actual = expected => err = NoErr /\ ret = expected
            /\ actual # expected =>
                  /\ err.kind = "Exception"
                  /\ err.actual = actual
                  /\ err.expected = expected
                  /\ ret = None

\* Fewer bytes are left than expected has, and they are a prefix of it.
C11_Witness ==
    /\ call.op = "ensure_fixed_contents"
    /\ call.args.expected = <<65, 0, 65>>
    /\ err.kind = "Exception"
    /\ err.actual = <<65, 0>>
    /\ err.expected = <<65, 0, 65>>
    /\ io.io_pos = Len(io.io)

-----------------------------------------------------------------------------
(* SpecBits: the bit round trip.  Init draws a width n, a value val, a bit *)
(* order and a start offset p; the caller writes the bits on a byte-aligned *)
(* stream, flushes, opens a fresh stream over the same bytes at p and reads *)
(* n bits in the same order.                                                *)

BytesFor(nbits) == ((nbits - 1) \div 8) + 1

\* Every value of up to n + 1 bits for the narrow widths, and for the wide
\* ones the extremes, alternating bit patterns and values above 2^n.
BitValues(n) ==
    IF n <= MaxBits THEN 0..(2 ^ (n + 1) - 1)
    ELSE {0, 1, 2 ^ n - 1, 2 ^ (n - 1), 2 ^ (n - 1) + 1, 2 ^ n - 2,
          (2 ^ n - 1) \div 3, (2 ^ n - 1) \div 5,
          2 ^ n, 2 ^ n + 1, 2 ^ (n + 1) - 1, 2 ^ n + (2 ^ n - 1) \div 3}

BitInputs ==
    UNION {{[n |-> n, val |-> v] : v \in BitValues(n)} : n \in 1..WideBits}

InitBits ==
    /\ \E x \in BitInputs, le \in BOOLEAN, p \in 0..1, room \in 0..1 :
          /\ inp = [n |-> x.n, val |-> x.val, le |-> le, p |-> p]
          /\ streams = [id \in {"io"} |->
                 KaitaiStream(Repeat(255, p + BytesFor(x.n) + room), p, TRUE)]
    /\ ret = None
    /\ err = NoErr
    /\ call = NoCall
    /\ log = <<>>
    /\ hist = <<>>

BitsWriteBe ==
    /\ hist = <<>> /\ ~inp.le
    /\ WriteBitsIntBe("io", "test", inp.n, inp.val)

BitsWriteLe ==
    /\ hist = <<>> /\ inp.le
    /\ WriteBitsIntLe("io", "test", inp.n, inp.val)

BitsFlush ==
    /\ Len(hist) = 1 /\ err = NoErr
    /\ WriteAlignToByte("io", "test")

BitsReopen ==
    /\ Len(hist) = 2 /\ err = NoErr
    /\ Reopen("io", "test", inp.p)

BitsReadBe ==
    /\ Len(hist) = 3 /\ ~inp.le
    /\ ReadBitsIntBe("io", "test", inp.n)

BitsReadLe ==
    /\ Len(hist) = 3 /\ inp.le
    /\ ReadBitsIntLe("io", "test", inp.n)

NextBits ==
    BitsWriteBe \/ BitsWriteLe \/ BitsFlush \/ BitsReopen \/ BitsReadBe
        \/ BitsReadLe

SpecBits == InitBits /\ [][NextBits]_vars

\* C1: write_bits_int_<order>(n, v) on a byte-aligned stream with room,
\* write_align_to_byte(), then read_bits_int_<order>(n) from a fresh stream
\* at the start of the bytes written: every call returns and the read
\* returns v mod 2^n.
C1_BitRoundTrip ==
    /\ err = NoErr
    /\ Len(hist) = 4 => ret = inp.val % (2 ^ inp.n)

C1_Witness ==
    /\ Len(hist) = 4
    /\ inp.le
    /\ inp.n = 11
    /\ inp.val > 2 ^ inp.n
    /\ ret = inp.val - 2 ^ inp.n
    /\ ret > 1

-----------------------------------------------------------------------------
(* SpecInts: the integer round trip.  Init draws a kind, a value of the    *)
(* kind and a start offset; the caller, in a write pass (bits of an        *)
(* earlier bit write may be pending), writes the value, seeks back to the  *)
(* position the write began at and reads the kind.                         *)

\* s1; s2be, s4be, s8be, s2le, s4le, s8le; u1; u2be .. u8le.
Kinds ==
    {[signed |-> sg, width |-> 1, be |-> FALSE] : sg \in BOOLEAN}
        \cup {[signed |-> sg, width |-> w, be |-> be] :
                 sg \in BOOLEAN, w \in {2, 4, 8}, be \in BOOLEAN}

\* Digits at the edges of a byte and of its sign bit.
EdgeDigits == {0, 1, 127, 128, 255}

\* Magnitudes of at most w digits: every one-digit magnitude, and those
\* whose lowest digit, middle digits (all alike) and top digit are edge
\* digits.
Magnitudes(w) ==
    {Digits(i) : i \in Byte}
        \cup (IF w = 1 THEN {}
              ELSE {Canon(<<lo>> \o Repeat(mid, w - 2) \o <<top>>) :
                       lo \in EdgeDigits, mid \in EdgeDigits, top \in EdgeDigits})

\* The values of a kind tried: its minimum, maximum, 0, -1 among them.
IntValues(kind) ==
    {v \in {[neg |-> ng, mag |-> m] : ng \in BOOLEAN, m \in Magnitudes(kind.width)} :
        /\ v.neg => v.mag # <<>>
        /\ Representable(kind, v)}

MinSigned(w) == [neg |-> TRUE, mag |-> Repeat(0, w - 1) \o <<128>>]

MaxSigned(w) == [neg |-> FALSE, mag |-> Repeat(255, w - 1) \o <<127>>]

MaxUnsigned(w) == [neg |-> FALSE, mag |-> Repeat(255, w)]

InitInts ==
    /\ \E kind \in Kinds, p \in 0..1 : \E v \in IntValues(kind) :
          /\ inp = [kind |-> kind, v |-> v, p |-> p]
          /\ streams = [id \in {"io"} |->
                 KaitaiStream(Repeat(255, p + kind.width + 1), p, TRUE)]
    /\ ret = None
    /\ err = NoErr
    /\ call = NoCall
    /\ log = <<>>
    /\ hist = <<>>

IntsPendingBits ==
    /\ hist = <<>>
    /\ \/ WriteBitsIntBe("io", "setup", 3, 5)
       \/ WriteBitsIntLe("io", "setup", 3, 5)

IntsWrite ==
    /\ Len(hist) <= 1 /\ call.role = "setup"
    /\ WriteInt("io", "test", inp.kind, inp.v)

\* The seek back to the position, as pos() reported it, the write began at.
IntsSeekBack ==
    /\ call.op = "write_int" /\ err = NoErr
    /\ Seek("io", "test", pos(call.pre))

IntsRead ==
    /\ call.op = "seek"
    /\ ReadInt("io", "test", inp.kind)

NextInts == IntsPendingBits \/ IntsWrite \/ IntsSeekBack \/ IntsRead

SpecInts == InitInts /\ [][NextInts]_vars

\* C2: for every integer kind and every value v of its range, write_<kind>(v)
\* in a write pass with room returns, advances pos() by exactly the kind's
\* width and changes no byte outside the bytes it wrote (and the byte that
\* flushes pending bits); a read_<kind>() from the position the write began
\* at returns v.
C2_IntRoundTrip ==
    /\ call.op = "write_int" =>
          /\ err = NoErr
          /\ pos(io) = pos(call.pre) + inp.kind.width
          /\ io.io_pos = pos(call.pre) + inp.kind.width
          /\ Len(io.io) = Len(call.pre.io)
          /\ \A i \in 1..Len(io.io) :
                 (i <= call.pre.io_pos \/ i > io.io_pos) => io.io[i] = call.pre.io[i]
    /\ call.op = "read_int" =>
          /\ err = NoErr
          /\ ret = inp.v
          /\ io.io_pos = call.pre.io_pos + inp.kind.width

C2_Witness ==
    /\ call.op = "read_int"
    /\ inp.kind = [signed |-> TRUE, width |-> 8, be |-> TRUE]
    /\ inp.v = MinSigned(8)
    /\ ret = MinSigned(8)
    /\ Len(hist) = 4

-----------------------------------------------------------------------------
(* Byte array processing: static methods, independent of any stream.       *)

process_xor_one(data, key) == [i \in 1..Len(data) |-> BitXor(data[i], key)]

\* zip(data, itertools.cycle(key)): left is what the current round of the
\* cycle has yet to yield; the cycle of an empty key yields nothing.
RECURSIVE xor_zip_cycle(_, _, _)
xor_zip_cycle(data, left, key) ==
    IF data = <<>> \/ key = <<>> THEN <<>>
    ELSE IF left = <<>> THEN xor_zip_cycle(data, key, key)
    ELSE <<BitXor(Head(data), Head(left))>>
             \o xor_zip_cycle(Tail(data), Tail(left), key)

\* process_xor_many with zip(data, key): the key is not repeated.
process_xor_many_no_cycle(data, key) ==
    [i \in 1..Min(Len(data), Len(key)) |-> BitXor(data[i], key[i])]

process_xor_many(data, key) == xor_zip_cycle(data, key, key)

-----------------------------------------------------------------------------
(* SpecXor: Init draws a byte array, a key and a key byte; the caller      *)
(* calls process_xor_many(data, key) and then process_xor_one(data, k).    *)

XorDataBytes == {0, 1, 165, 255}

XorKeyBytes == {0, 90, 255}

InitXor ==
    /\ \E data \in Strings(XorDataBytes, MaxLen),
          key \in Strings(XorKeyBytes, MaxKey), k \in XorKeyBytes :
          inp = [data |-> data, key |-> key, k |-> k]
    /\ streams = <<>>
    /\ ret = None
    /\ err = NoErr
    /\ call = NoCall
    /\ log = <<>>
    /\ hist = <<>>

\* A call of a static method, r its result; pre is what the call before it
\* returned.
DoStatic(name, args, r) ==
    /\ ret' = r
    /\ call' = [op |-> name, id |-> "none", role |-> "test", args |-> args,
                pre |-> ret]
    /\ hist' = Append(hist, [op |-> name, ok |-> TRUE])
    /\ UNCHANGED <<streams, err, log, inp>>

ProcessXorMany ==
    /\ hist = <<>>
    /\ DoStatic("process_xor_many", [data |-> inp.data, key |-> inp.key],
                process_xor_many(inp.data, inp.key))

ProcessXorOne ==
    /\ Len(hist) = 1
    /\ DoStatic("process_xor_one", [data |-> inp.data, key |-> inp.k],
                process_xor_one(inp.data, inp.k))

NextXor == ProcessXorMany \/ ProcessXorOne

SpecXor == InitXor /\ [][NextXor]_vars

\* Bit i of the byte a.
BitOf(a, i) == (a \div (2 ^ i)) % 2

\* a XOR b of two bytes, bit by bit.
XorByte(a, b) ==
    LET x(i) == ((BitOf(a, i) + BitOf(b, i)) % 2) * (2 ^ i)
    IN  x(0) + x(1) + x(2) + x(3) + x(4) + x(5) + x(6) + x(7)

\* C12: for a non-empty key process_xor_many(data, key) has the length of
\* data and its i-th byte (from 0) is data[i] XOR key[i mod len(key)]; for
\* the one-byte key [k] it is what process_xor_one(data, k) returns.
C12_XorMany ==
    /\ (call.op = "process_xor_many" /\ call.args.key # <<>>) =>
          /\ Len(ret) = Len(call.args.data)
          /\ \A i \in 1..Len(ret) :
                ret[i] = XorByte(call.args.data[i],
                                 call.args.key[((i - 1) % Len(call.args.key)) + 1])
    /\ (call.op = "process_xor_one" /\ inp.key = <<inp.k>>) => ret = call.pre

\* The key is shorter than the data, so it repeats, and the one-byte key.
C12_Witness ==
    /\ call.op = "process_xor_one"
    /\ inp.key = <<255>> /\ inp.k = 255
    /\ inp.data = <<1, 165, 255>>
    /\ ret = <<254, 90, 0>>
    /\ call.pre = <<254, 90, 0>>

-----------------------------------------------------------------------------
(* SpecRotate: Init draws a byte array, an amount and a group size; the     *)
(* caller calls process_rotate_left(data, amount, group_size).              *)

\* raise Exception("unable to rotate group of %d bytes yet")
RotateUnimplemented == [kind |-> "Exception", requested |-> 0, available |-> 0]

\* The outcome [ret, err] of process_rotate_left.
process_rotate_left(data, amount, group_size) ==
    IF group_size # 1 THEN [ret |-> None, err |-> RotateUnimplemented]
    ELSE LET anti_amount == (-amount) % (group_size * 8)
         IN  [ret |-> [i \in 1..Len(data) |->
                          BitOr(BitAnd(Shl(data[i], amount), 255),
                                Shr(data[i], anti_amount))],
              err |-> NoErr]

RotateDataBytes == {1, 129, 180}

InitRotate ==
    /\ \E data \in Strings(RotateDataBytes, MaxLen), amount \in 0..MaxAmount,
          group_size \in 0..2 :
          inp = [data |-> data, amount |-> amount, group_size |-> group_size]
    /\ streams = <<>>
    /\ ret = None
    /\ err = NoErr
    /\ call = NoCall
    /\ log = <<>>
    /\ hist = <<>>

ProcessRotateLeft ==
    /\ hist = <<>>
    /\ LET r == process_rotate_left(inp.data, inp.amount, inp.group_size)
       IN  /\ ret' = r.ret
           /\ err' = r.err
           /\ call' = [op |-> "process_rotate_left", id |-> "none",
                       role |-> "test",
                       args |-> [data |-> inp.data, amount |-> inp.amount,
                                 group_size |-> inp.group_size],
                       pre |-> None]
           /\ hist' = Append(hist, [op |-> "process_rotate_left",
                                    ok |-> r.err = NoErr])
    /\ UNCHANGED <<streams, log, inp>>

NextRotate == ProcessRotateLeft

SpecRotate == InitRotate /\ [][NextRotate]_vars

\* The byte b rotated left by amount bit positions within its 8 bits.
RotateLeft8(b, amount) ==
    LET a == amount % 8
    IN  ((b * (2 ^ a)) % 256) + (b \div (2 ^ (8 - a)))

\* C21 as stated: with group_size = 1 process_rotate_left returns, for every
\* amount >= 0, an array of the length of data whose bytes are those of data
\* rotated left by amount within 8 bits; with another group_size it raises.
C21_RotateLeft ==
    call.op = "process_rotate_left" =>
        IF call.args.group_size = 1
        THEN /\ err = NoErr
             /\ Len(ret) = Len(call.args.data)
             /\ \A i \in 1..Len(ret) :
                   /\ ret[i] \in 0..255
                   /\ ret[i] = RotateLeft8(call.args.data[i], call.args.amount)
        ELSE err # NoErr

\* The byte 1 rotated by 9 came back as 0: the bit was shifted out.
C21_Witness ==
    /\ call.op = "process_rotate_left"
    /\ call.args.group_size = 1
    /\ call.args.amount = 9
    /\ call.args.data = <<1, 129, 180>>
    /\ ret = <<0, 1, 1>>

-----------------------------------------------------------------------------
(* The write-back graph.  S maps stream ids to streams; child_streams holds *)
(* ids.  An outcome is [S, log, err]: the streams after the call, the       *)
(* handlers invoked (the child, its parent, the parent's pos() and          *)
(* bits_left when the callback was entered) and the exception raised.       *)

AttributeError == [kind |-> "AttributeError", requested |-> 0, available |-> 0]

\* to_byte_array(): seek(0), read_bytes_full(), seek(pos) in turn; the
\* second and third steps take the outcome of the step before.
to_byte_array_done(r, b) == IF Failed(b) THEN b ELSE Ok(b.s, r.ret)

to_byte_array_back(p, r) == to_byte_array_done(r, seek(r.s, p))

to_byte_array_read(p, a) ==
    IF Failed(a) THEN a ELSE to_byte_array_back(p, read_bytes_full(a.s))

to_byte_array(s) == to_byte_array_read(pos(s), seek(s, 0))

\* WriteBackHandler(pos, handler): the callback is the caller's; two kinds
\* are tried: "bytes" copies the child's bytes into the parent,
\* parent.write_bytes(child.to_byte_array()), and "bits" writes a bit field,
\* parent.write_bits_int_be(3, 5), which leaves bits pending in the parent.
HandlerKinds == {"bytes", "bits"}

WriteBackHandler(p, kind) == [pos |-> p, kind |-> kind]

\* add_child_stream that assigns the list instead of appending to it.
add_child_stream_assigns(s, child) == [s EXCEPT !.child_streams = <<child>>]

add_child_stream(s, child) ==
    [s EXCEPT !.child_streams = Append(s.child_streams, child)]

\* The streams S with the outcome r of a call on the stream id.
Put(S, id, r) == [S |-> [S EXCEPT ![id] = r.s], err |-> r.err]

\* parent.write_bytes(t), t the outcome of self.to_byte_array()
handler_bytes(S, self, parent, t) ==
    IF Failed(t) THEN Put(S, self, t)
    ELSE Put([S EXCEPT ![self] = t.s], parent, write_bytes(S[parent], t.ret))

\* self.handler(parent), for the stream self whose handler it is.
handler(S, self, parent) ==
    IF S[self].write_back_handler.kind = "bytes"
    THEN handler_bytes(S, self, parent, to_byte_array(S[self]))
    ELSE Put(S, parent, write_bits_int_be(S[parent], 3, 5))

\* The log entry of a handler invocation, and the outcome h of the callback.
write_back_called(self, parent, target, entered, h) ==
    [S |-> h.S,
     log |-> <<[id |-> self, parent |-> parent, target |-> target,
                pos |-> pos(entered), bits_left |-> entered.bits_left]>>,
     err |-> h.err]

\* WriteBackHandler.write_back(parent) after parent.seek(self.pos), whose
\* outcome is sk.
write_back_seeked(S, self, parent, sk) ==
    IF Failed(sk) THEN [S |-> [S EXCEPT ![parent] = sk.s], log |-> <<>>,
                        err |-> sk.err]
    ELSE write_back_called(self, parent, S[self].write_back_handler.pos, sk.s,
                           handler([S EXCEPT ![parent] = sk.s], self, parent))

\* WriteBackHandler.write_back that calls the handler without the seek.
write_back_no_seek(S, self, parent) ==
    write_back_seeked(S, self, parent, Ok(S[parent], None))

\* WriteBackHandler.write_back(parent)
write_back(S, self, parent) ==
    write_back_seeked(S, self, parent,
                      seek(S[parent], S[self].write_back_handler.pos))

_write_back(S, self, parent) ==
    IF S[self].write_back_handler = NoHandler
    THEN [S |-> S, log |-> <<>>, err |-> AttributeError]
    ELSE write_back(S, self, parent)

\* The root is passed parent = None.
NoParent == -1

\* The outcome of a call after the outcome before of the calls before it.
Chain(before, out) ==
    [S |-> out.S, log |-> before.log \o out.log, err |-> out.err]

\* write_back_child_streams after self.seek(_pos), whose outcome is sk.
write_back_restored(self, parent, kids, sk) ==
    IF Failed(sk) THEN [S |-> [kids.S EXCEPT ![self] = sk.s], log |-> kids.log,
                        err |-> sk.err]
    ELSE IF parent # NoParent
    THEN Chain(kids, _write_back([kids.S EXCEPT ![self] = sk.s], self, parent))
    ELSE [S |-> [kids.S EXCEPT ![self] = sk.s], log |-> kids.log, err |-> NoErr]

\* write_back_child_streams without the self.seek(_pos) after its loop.
write_back_cleared_no_seek(self, parent, _pos, kids) ==
    IF kids.err # NoErr THEN kids
    ELSE write_back_restored(
             self, parent,
             [kids EXCEPT !.S[self].child_streams = <<>>],
             Ok([kids.S[self] EXCEPT !.child_streams = <<>>], None))

\* write_back_child_streams without the del self.child_streams[:].
write_back_cleared_no_del(self, parent, _pos, kids) ==
    IF kids.err # NoErr THEN kids
    ELSE write_back_restored(self, parent, kids, seek(kids.S[self], _pos))

\* write_back_child_streams after its loop, whose outcome is kids:
\* del self.child_streams[:], then self.seek(_pos).
write_back_cleared(self, parent, _pos, kids) ==
    IF kids.err # NoErr THEN kids
    ELSE write_back_restored(
             self, parent,
             [kids EXCEPT !.S[self].child_streams = <<>>],
             seek([kids.S[self] EXCEPT !.child_streams = <<>>], _pos))

RECURSIVE write_back_child_streams(_, _, _)
RECURSIVE write_back_children(_, _, _)

\* for child in self.child_streams: child.write_back_child_streams(self),
\* before the outcome of the children gone through, children those left.
write_back_children(before, self, children) ==
    IF children = <<>> \/ before.err # NoErr THEN before
    ELSE write_back_children(
             Chain(before, write_back_child_streams(before.S, Head(children), self)),
             self, Tail(children))

\* write_back_child_streams that calls self._write_back(parent) before its
\* loop over the children instead of after it.
write_back_child_streams_handler_first(S, self, parent) ==
    write_back_cleared(
        self, NoParent, pos(S[self]),
        write_back_children(
            IF parent # NoParent THEN _write_back(S, self, parent)
            ELSE [S |-> S, log |-> <<>>, err |-> NoErr],
            self, S[self].child_streams))

write_back_child_streams(S, self, parent) ==
    write_back_cleared(
        self, parent, pos(S[self]),
        write_back_children([S |-> S, log |-> <<>>, err |-> NoErr], self,
                            S[self].child_streams))

-----------------------------------------------------------------------------
(* SpecWriteBack: a write pass over a root stream (id 0) and up to          *)
(* MaxChildren child streams.  The caller registers a fresh child on a      *)
(* stream of the tree and gives it its handler, as generated writers do;    *)
(* it may move a cursor or leave bits pending; it calls                     *)
(* write_back_child_streams on the root, and may go on registering          *)
(* children and call it again.                                              *)

Root == 0

StreamIds == 0..MaxChildren

ChildBytes(id) == <<16 * id + 1, 16 * id + 2>>

\* Offsets in the parent that handlers patch: two slots of a child's size.
HandlerPositions == {0, 2}

Count(name) == Cardinality({i \in 1..Len(hist) : hist[i].op = name})

\* The streams registered below id, id itself included.
RECURSIVE Subtree(_, _)
Subtree(S, id) ==
    {id} \cup UNION {Subtree(S, S[id].child_streams[i]) :
                        i \in 1..Len(S[id].child_streams)}

DoGraph(id, name, args, out) ==
    /\ streams' = out.S
    /\ ret' = None
    /\ err' = out.err
    /\ log' = out.log
    /\ call' = [op |-> name, id |-> id, role |-> "test", args |-> args,
                pre |-> streams]
    /\ hist' = Append(hist, [op |-> name, ok |-> out.err = NoErr])
    /\ UNCHANGED inp

InitWriteBack ==
    /\ streams = [id \in StreamIds |->
           IF id = Root THEN KaitaiStream(Repeat(0, MaxLen + 1), 0, TRUE)
           ELSE KaitaiStream(ChildBytes(id), 0, TRUE)]
    /\ ret = None
    /\ err = NoErr
    /\ call = NoCall
    /\ log = <<>>
    /\ inp = None
    /\ hist = <<>>

\* parent.add_child_stream(child), child the next fresh stream.
AddChildStream ==
    /\ call.op \notin {"add_child_stream", "prepare"}
    /\ Count("add_child_stream") < MaxChildren
    /\ \E parent \in Subtree(streams, Root) :
          LET child == Count("add_child_stream") + 1
          IN  DoGraph(parent, "add_child_stream", [child |-> child],
                      [S |-> [streams EXCEPT
                                 ![parent] = add_child_stream(streams[parent], child)],
                       log |-> log, err |-> NoErr])

\* child.write_back_handler = WriteBackHandler(pos, handler), for the child
\* just registered.
SetWriteBackHandler ==
    /\ call.op = "add_child_stream"
    /\ \E p \in HandlerPositions, kind \in HandlerKinds :
          DoGraph(call.args.child, "set_write_back_handler",
                  [pos |-> p, kind |-> kind],
                  [S |-> [streams EXCEPT ![call.args.child].write_back_handler =
                                             WriteBackHandler(p, kind)],
                   log |-> log, err |-> NoErr])

\* A call that moves a cursor or leaves bits pending in some stream.
PrepareCalls == {"write_bits_int_be", "seek"}

PrepareCall(s, name) ==
    CASE name = "write_bits_int_be" -> write_bits_int_be(s, 3, 5)
      [] name = "seek" -> seek(s, 1)

\* The caller moves a cursor or leaves bits pending in a stream of the tree
\* right before it finalizes.
Prepare ==
    /\ call.op \notin {"add_child_stream", "prepare"}
    /\ Count("write_back_child_streams") < MaxFinalize
    /\ \E id \in Subtree(streams, Root), name \in PrepareCalls :
          LET r == PrepareCall(streams[id], name)
          IN  DoGraph(id, "prepare", [name |-> name],
                      [S |-> [streams EXCEPT ![id] = r.s], log |-> log,
                       err |-> r.err])

\* root.write_back_child_streams()
WriteBackChildStreams ==
    /\ call.op # "add_child_stream"
    /\ Count("write_back_child_streams") < MaxFinalize
    /\ DoGraph(Root, "write_back_child_streams", NoArgs,
               write_back_child_streams(streams, Root, NoParent))

NextWriteBack ==
    AddChildStream \/ SetWriteBackHandler \/ Prepare \/ WriteBackChildStreams

SpecWriteBack == InitWriteBack /\ [][NextWriteBack]_vars

-----------------------------------------------------------------------------
(* Claims about the write-back graph, under SpecWriteBack.                   *)

Finalize == "write_back_child_streams"

\* The streams below the root when the last call began, the root excluded.
Registered == Subtree(call.pre, Root) \ {Root}

\* The ids of the handlers invoked by the last call, in order.
Invoked == [i \in 1..Len(log) |-> log[i].id]

\* The ownership tree below id in post-order with siblings in registration
\* order, id itself last.
RECURSIVE PostOrder(_, _)
RECURSIVE PostOrderAll(_, _)
PostOrderAll(S, ids) ==
    IF ids = <<>> THEN <<>>
    ELSE PostOrder(S, Head(ids)) \o PostOrderAll(S, Tail(ids))

PostOrder(S, id) == PostOrderAll(S, S[id].child_streams) \o <<id>>

IsPrefix(a, b) == Len(a) <= Len(b) /\ a = SubSeq(b, 1, Len(a))

\* C7: when write_back_child_streams returns, pos() of the stream it was
\* called on, the root and each registered stream the pass descends into, is
\* what it was when the call began, although the handlers seek and write in
\* those streams.
C7_FinalizeRestoresCursor ==
    (call.op = Finalize /\ err = NoErr) =>
        \A id \in Subtree(call.pre, Root) :
            pos(streams[id]) = pos(call.pre[id])

\* A pass over a child and a grandchild whose handlers were entered with the
\* parent's cursor moved off the position the parent had.
C7_Witness ==
    /\ call.op = Finalize
    /\ err = NoErr
    /\ pos(call.pre[Root]) = 1
    /\ pos(streams[Root]) = 1
    /\ Len(log) = 2
    /\ \E i \in 1..2 : log[i].parent = Root /\ log[i].pos # 1
    /\ \E i \in 1..2 : log[i].parent # Root
                       /\ log[i].pos # pos(call.pre[log[i].parent])

\* C8: the handlers write_back_child_streams invokes on the root are those
\* of the ownership tree in post-order, siblings in registration order, each
\* with its own parent: a stream's handler runs after the handlers of all of
\* its descendants.  A pass an exception ends has invoked a prefix of them.
C8_FinalizePostOrder ==
    call.op = Finalize =>
        /\ IsPrefix(Invoked, PostOrderAll(call.pre, call.pre[Root].child_streams))
        /\ err = NoErr =>
              Invoked = PostOrderAll(call.pre, call.pre[Root].child_streams)
        /\ \A i \in 1..Len(log) :
              /\ \E k \in 1..Len(call.pre[log[i].parent].child_streams) :
                     call.pre[log[i].parent].child_streams[k] = log[i].id
              /\ \A j \in 1..Len(log) :
                     (j # i /\ log[j].id \in Subtree(call.pre, log[i].id)) => j < i

\* A grandchild's handler runs before its parent's, which was registered
\* first.
C8_Witness ==
    /\ call.op = Finalize
    /\ err = NoErr
    /\ Len(log) = 2
    /\ log[1].id = 2 /\ log[1].parent = 1
    /\ log[2].id = 1 /\ log[2].parent = Root

\* A successful write_back_child_streams came before the last call and no
\* add_child_stream since.
SecondPass ==
    /\ call.op = Finalize
    /\ \E i \in 1..(Len(hist) - 1) :
          /\ hist[i].op = Finalize /\ hist[i].ok
          /\ \A j \in (i + 1)..(Len(hist) - 1) : hist[j].op # "add_child_stream"

\* C9: a pass that returns has invoked the handler of every registered
\* stream exactly once and not the root's, and has left the child list of
\* every stream it visited empty; a second write_back_child_streams on the
\* root invokes no handler.
C9_HandlerConsumedOnce ==
    /\ (call.op = Finalize /\ err = NoErr) =>
          /\ \A id \in Registered :
                Cardinality({i \in 1..Len(log) : log[i].id = id}) = 1
          /\ \A i \in 1..Len(log) : log[i].id \in Registered
          /\ \A id \in Subtree(call.pre, Root) : streams[id].child_streams = <<>>
    /\ SecondPass => log = <<>>

\* The second pass over a tree of two registered streams.
C9_Witness ==
    /\ SecondPass
    /\ err = NoErr
    /\ log = <<>>
    /\ Count("add_child_stream") = 2
    /\ Count(Finalize) = 2

\* A write_back_child_streams on the root has returned.
FinalizedRoot ==
    \E i \in 1..Len(hist) : hist[i].op = Finalize /\ hist[i].ok

\* C10 as stated: once a stream is finalized no further child stream is
\* registered on it.
C10_NoRegistrationOnceFinalized ==
    [][FinalizedRoot =>
          Len(streams'[Root].child_streams) <= Len(streams[Root].child_streams)]_vars

\* C10 amended: a stream keeps no finalized state.  write_back_child_streams
\* leaves the child list of the stream empty each time it returns, and
\* add_child_stream appends the child to the list whether or not the stream
\* was finalized before; the next write_back_child_streams invokes the
\* handlers of the streams registered since.
C10_RegistrationStaysOpen ==
    /\ call.op = "add_child_stream" =>
          /\ err = NoErr
          /\ streams[call.id].child_streams =
                 Append(call.pre[call.id].child_streams, call.args.child)
    /\ (call.op = Finalize /\ err = NoErr) =>
          /\ streams[Root].child_streams = <<>>
          /\ {log[i].id : i \in 1..Len(log)} = Registered

\* A child registered on the root after a pass returned is written back by
\* the next pass.
C10_Witness ==
    /\ call.op = Finalize
    /\ err = NoErr
    /\ Len(log) = 1
    /\ log[1].parent = Root
    /\ \E i \in 1..Len(hist), j \in 1..Len(hist) :
          /\ i < j
          /\ hist[i].op = Finalize /\ hist[i].ok
          /\ hist[j].op = "add_child_stream"
          /\ \A k \in 1..(i - 1) : hist[k].op # "add_child_stream"

\* C25: every callback invoked by write_back_child_streams was entered with
\* its parent byte-aligned and the parent's pos() at the offset of the
\* child's WriteBackHandler, and that offset is the one the child was given.
C25_CallbackSeesTarget ==
    \A i \in 1..Len(log) :
        /\ log[i].bits_left = 0
        /\ log[i].pos = log[i].target
        /\ log[i].target = call.pre[log[i].id].write_back_handler.pos

\* The first callback found the root at offset 2, aligned; the root was at
\* offset 0 with three bits pending when the caller finalized.
C25_Witness ==
    /\ call.op = Finalize
    /\ Len(log) >= 1
    /\ log[1].parent = Root
    /\ call.pre[Root].bits_write_mode
    /\ call.pre[Root].bits_left = 3
    /\ call.pre[Root].io_pos = 0
    /\ log[1].target = 2
    /\ log[1].pos = 2
    /\ log[1].bits_left = 0

-----------------------------------------------------------------------------
(* SpecStream: any sequence of up to MaxOps calls on one stream: bit reads *)
(* and writes in both orders, byte and integer reads and writes, align,    *)
(* flush, seek and, last, close.  The stream was just constructed over a   *)
(* store of MaxLen bytes, its cursor anywhere; a store that cannot seek    *)
(* has its cursor at 0.                                                    *)

StreamStore == [i \in 1..MaxLen |-> IF i % 2 = 1 THEN 165 ELSE 90]

\* Bit widths: none, part of a byte, more than a byte.
StreamWidths == {0, 3, 9}

S1 == [signed |-> TRUE, width |-> 1, be |-> TRUE]

U2Be == [signed |-> FALSE, width |-> 2, be |-> TRUE]

InitStream ==
    /\ \E p \in 0..MaxLen, seekable \in BOOLEAN :
          /\ ~seekable => p = 0
          /\ streams = [id \in {"io"} |-> KaitaiStream(StreamStore, p, seekable)]
    /\ inp = [len |-> MaxLen]
    /\ ret = None
    /\ err = NoErr
    /\ call = NoCall
    /\ log = <<>>
    /\ hist = <<>>

Open == ~streams["io"].closed /\ Len(hist) < MaxOps

StreamReadBits ==
    /\ Open
    /\ \E n \in StreamWidths :
          ReadBitsIntBe("io", "test", n) \/ ReadBitsIntLe("io", "test", n)

StreamWriteBits ==
    /\ Open
    /\ \/ WriteBitsIntBe("io", "test", 0, 0)
       \/ WriteBitsIntBe("io", "test", 3, 5)
       \/ WriteBitsIntLe("io", "test", 3, 5)
       \/ WriteBitsIntLe("io", "test", 9, 341)

StreamReadBytes == Open /\ ReadBytes("io", "test", 1)

StreamWriteBytes ==
    /\ Open
    /\ \E buf \in {<<>>, <<7, 8>>} : WriteBytes("io", "test", buf)

StreamAlign == Open /\ AlignToByte("io", "test")

StreamFlush == Open /\ WriteAlignToByte("io", "test")

StreamSeek == Open /\ \E n \in {0, MaxLen + 1} : Seek("io", "test", n)

StreamReadInt == Open /\ \E kind \in {S1, U2Be} : ReadInt("io", "test", kind)

StreamWriteInt ==
    /\ Open
    /\ \/ WriteInt("io", "test", S1, PyInt(-2))
       \/ WriteInt("io", "test", S1, PyInt(200))
       \/ WriteInt("io", "test", U2Be, PyInt(258))

StreamClose == Open /\ Close("io", "test")

NextStream ==
    \/ StreamReadBits
    \/ StreamWriteBits
    \/ StreamReadBytes
    \/ StreamWriteBytes
    \/ StreamAlign
    \/ StreamFlush
    \/ StreamSeek
    \/ StreamReadInt
    \/ StreamWriteInt
    \/ StreamClose

SpecStream == InitStream /\ [][NextStream]_vars

ReadBitsOps == {"read_bits_int_be", "read_bits_int_le"}

WriteBitsOps == {"write_bits_int_be", "write_bits_int_le"}

\* C13: after any sequence of calls, those that raise included, bits_left is
\* an integer in 0..7.
C13_BitsLeftInRange == io.bits_left \in 0..7

\* A bit read that raised at the end of the store left bits_left at 5.
C13_Witness ==
    /\ call.op \in ReadBitsOps
    /\ err.kind = "EOFError"
    /\ call.pre.bits_left = 0
    /\ io.bits_left = 5

\* C14: after a read_bits_int_be(n) or read_bits_int_le(n) that returns,
\* bits_left is (-(n - p)) mod 8, p the bits_left before the call.
C14_BitsLeftAfterRead ==
    (call.op \in ReadBitsOps /\ err = NoErr) =>
        io.bits_left = (-(call.args.n - call.pre.bits_left)) % 8

\* 9 bits read with 5 bits left over from the read before: 4 are left.
C14_Witness ==
    /\ call.op = "read_bits_int_le"
    /\ err = NoErr
    /\ call.args.n = 9
    /\ call.pre.bits_left = 5
    /\ io.bits_left = 4

\* The stream s with an empty bit buffer.
Drained(s) == [s EXCEPT !.bits_left = 0, !.bits = 0]

\* No bit read was made before the last call.
NoReadBitsBefore ==
    \A i \in 1..(Len(hist) - 1) : hist[i].op \notin ReadBitsOps

\* C16 as stated: the two directions do not share bits.  A bit read made
\* while write bits are pending (and no bit read came before) returns what
\* it returns with no bits pending; a flush, a byte write or a bit write
\* made while read bits are pending gives the store the bytes it gives it
\* with no bits pending.
C16_BitBuffersIndependent ==
    /\ (/\ call.op \in ReadBitsOps /\ err = NoErr
        /\ call.pre.bits_write_mode /\ call.pre.bits_left > 0
        /\ NoReadBitsBefore) =>
          LET alone == IF call.op = "read_bits_int_be"
                       THEN read_bits_int_be(Drained(call.pre), call.args.n)
                       ELSE read_bits_int_le(Drained(call.pre), call.args.n)
          IN  alone.err = NoErr /\ alone.ret = ret
    /\ (/\ call.op \in WriteBitsOps \cup {"write_align_to_byte", "write_bytes"}
        /\ ~call.pre.bits_write_mode /\ call.pre.bits_left > 0) =>
          /\ call.op = "write_align_to_byte" => io.io = call.pre.io
          /\ call.op = "write_bytes" =>
                io.io = write_bytes(Drained(call.pre), call.args.buf).s.io
          /\ call.op = "write_bits_int_be" =>
                io.io = write_bits_int_be(Drained(call.pre), call.args.n,
                                          call.args.val).s.io
          /\ call.op = "write_bits_int_le" =>
                io.io = write_bits_int_le(Drained(call.pre), call.args.n,
                                          call.args.val).s.io

\* A flush made with five read bits pending wrote them, padded, over the
\* second byte of the store.
C16_Witness ==
    /\ call.op = "write_align_to_byte"
    /\ err = NoErr
    /\ ~call.pre.bits_write_mode
    /\ call.pre.bits_left = 5
    /\ call.pre.io = StreamStore
    /\ io.io = <<165, 40, 165>>

\* The last call but one, NoCall's op when there is none.
PrevOp == IF Len(hist) >= 2 THEN hist[Len(hist) - 1] ELSE [op |-> "none", ok |-> TRUE]

\* C17: write_align_to_byte called with bits_left > 0 leaves bits_left = 0
\* and bits = 0 whether or not the write of the byte raises; after a flush
\* that raised, a seek (to an offset the store accepts) or a flush returns.
C17_FlushClearsBits ==
    /\ (call.op = "write_align_to_byte" /\ call.pre.bits_left > 0) =>
          io.bits_left = 0 /\ io.bits = 0
    /\ (/\ PrevOp.op = "write_align_to_byte" /\ ~PrevOp.ok
        /\ \/ call.op = "write_align_to_byte"
           \/ call.op = "seek" /\ io.seekable /\ call.args.n >= 0) =>
          err = NoErr

\* The flush raised for want of room and the seek after it returned.
C17_Witness ==
    /\ call.op = "seek"
    /\ err = NoErr
    /\ PrevOp.op = "write_align_to_byte"
    /\ ~PrevOp.ok
    /\ io.bits_left = 0

\* C18: close() closes the backing store on every path; in bit-write mode it
\* first flushes the pending bits, and when the flush raises the store is
\* closed all the same and the caller gets the exception.
C18_CloseAlwaysCloses ==
    call.op = "close" =>
        /\ io.closed
        /\ LET flush == write_align_to_byte(call.pre)
           IN  IF call.pre.bits_write_mode
               THEN /\ err = flush.err
                    /\ io.io = flush.s.io
                    /\ io.bits_left = 0
               ELSE err = NoErr /\ io.io = call.pre.io

\* The flush of close() raised and the store is closed.
C18_Witness ==
    /\ call.op = "close"
    /\ call.pre.bits_write_mode
    /\ call.pre.bits_left > 0
    /\ err.kind = "EOFError"
    /\ io.closed

\* The byte write_align_to_byte makes of the pending bits of s.
PaddedByte(s) ==
    IF s.bits_le THEN s.bits ELSE s.bits * (2 ^ (8 - s.bits_left))

WriteOps == WriteBitsOps \cup {"write_bytes", "write_int"}

\* C20: the store keeps the length it had at construction, which is _size
\* when the store can seek.  A write_bytes(buf) whose buffer would end past
\* that size raises and writes no byte of buf (only the byte that flushes
\* pending bits, when there is room for it); made with no bits pending it
\* raises EOFError and leaves the store and the cursor as they were.  On a
\* store that cannot seek every write raises and leaves the store as it was.
C20_StoreNeverGrows ==
    /\ Len(io.io) = inp.len
    /\ io.seekable => io._size = inp.len
    /\ (/\ call.op = "write_bytes" /\ call.pre.seekable
        /\ call.pre.io_pos + (IF call.pre.bits_left > 0 THEN 1 ELSE 0)
               + Len(call.args.buf) > call.pre._size) =>
          /\ err # NoErr
          /\ \A i \in 1..Len(io.io) :
                io.io[i] # call.pre.io[i] =>
                    i = call.pre.io_pos + 1 /\ call.pre.bits_left > 0
          /\ call.pre.bits_left = 0 =>
                /\ err = EOFError(Len(call.args.buf),
                                  call.pre._size - call.pre.io_pos)
                /\ io.io = call.pre.io
                /\ io.io_pos = call.pre.io_pos
    /\ (call.op \in WriteOps /\ ~call.pre.seekable) =>
          err # NoErr /\ io.io = call.pre.io
    /\ (/\ call.op = "write_align_to_byte" /\ ~call.pre.seekable
        /\ call.pre.bits_left > 0) =>
          err # NoErr /\ io.io = call.pre.io

\* A buffer of two bytes written with one byte of room, after a bit write
\* that raised for want of room.
C20_Witness ==
    /\ call.op = "write_bytes"
    /\ call.args.buf = <<7, 8>>
    /\ call.pre.io_pos = Len(call.pre.io) - 1
    /\ call.pre.bits_left = 0
    /\ err = EOFError(2, 1)
    /\ io.io = StreamStore
    /\ PrevOp.op = "write_bits_int_le"

\* C24: a flush right after a write_bits call that returned, with r =
\* bits_left in 1..7 pending bits of value b (b < 2^r) and room in the store,
\* returns having written one byte at the cursor and nothing else: b * 2^(8-r)
\* after write_bits_int_be, b after write_bits_int_le.  A flush with
\* bits_left = 0 returns and leaves store and cursor as they were.
C24_FlushPadding ==
    call.op = "write_align_to_byte" =>
        LET r == call.pre.bits_left
            b == call.pre.bits
            at == call.pre.io_pos + 1
        IN  /\ r = 0 =>
                  err = NoErr /\ io.io = call.pre.io /\ io.io_pos = call.pre.io_pos
            /\ (/\ r > 0 /\ b < 2 ^ r
                /\ PrevOp.op \in WriteBitsOps /\ PrevOp.ok
                /\ call.pre.seekable /\ call.pre.io_pos < call.pre._size) =>
                  /\ err = NoErr
                  /\ io.io_pos = at
                  /\ io.io = [call.pre.io EXCEPT ![at] =
                                 IF PrevOp.op = "write_bits_int_be"
                                 THEN b * (2 ^ (8 - r)) ELSE b]
                  /\ IF PrevOp.op = "write_bits_int_be"
                     THEN io.io[at] % (2 ^ (8 - r)) = 0
                     ELSE io.io[at] < 2 ^ r

\* Little-endian bits 101 flushed as 00000101 over the first byte.
C24_Witness ==
    /\ call.op = "write_align_to_byte"
    /\ err = NoErr
    /\ PrevOp.op = "write_bits_int_le" /\ PrevOp.ok
    /\ call.pre.bits_left = 3 /\ call.pre.bits = 5
    /\ call.pre.io = StreamStore
    /\ io.io = <<5, 90, 165>>
    /\ io.io_pos = 1

\* C27 as stated: a read_bits_int_be or read_bits_int_le that raises EOFError
\* leaves bits_left and bits as they were, so that bits < 2^bits_left still
\* holds when it held before the call.
C27_FailedReadKeepsBits ==
    (call.op \in ReadBitsOps /\ err.kind = "EOFError") =>
        /\ io.bits_left = call.pre.bits_left
        /\ io.bits = call.pre.bits
        /\ call.pre.bits < 2 ^ call.pre.bits_left => io.bits < 2 ^ io.bits_left

\* A read_bits_int_be(9) with seven bits pending raised at the end of the
\* store and left six bits pending with the value of the seven.
C27_Witness ==
    /\ call.op = "read_bits_int_be"
    /\ call.args.n = 9
    /\ err.kind = "EOFError"
    /\ call.pre.bits_left = 7
    /\ call.pre.bits = 82
    /\ io.bits_left = 6
    /\ io.bits = 82

\* The calls of a write pass.
WriteSideOps ==
    WriteBitsOps \cup {"write_bytes", "write_int", "seek", "write_align_to_byte"}

\* Every call made so far is one of a write pass.
WriteSideOnly == \A i \in 1..Len(hist) : hist[i].op \in WriteSideOps

\* C28: after write-side calls only on a stream just constructed, bits
\* pending means the store cursor is below _size; a flush right after a
\* write_bits call that returned does not raise.
C28_RoomForPendingByte ==
    WriteSideOnly =>
        /\ io.bits_left > 0 => io.seekable /\ io.io_pos < io._size
        /\ (/\ call.op = "write_align_to_byte"
            /\ PrevOp.op \in WriteBitsOps /\ PrevOp.ok) => err = NoErr

\* Three bits written with one byte of room, then flushed into that byte.
C28_Witness ==
    /\ WriteSideOnly
    /\ call.op = "write_align_to_byte"
    /\ PrevOp.op = "write_bits_int_be" /\ PrevOp.ok
    /\ call.pre.bits_left = 3
    /\ call.pre.io_pos = inp.len - 1
    /\ err = NoErr
    /\ io.io_pos = inp.len
    /\ io.io[inp.len] = 160

\* C29 as stated: a write_bits_int_be or write_bits_int_le that raises
\* EOFError leaves the store, the cursor, bits_left, bits, bits_le and
\* bits_write_mode as they were, and pos() with them.
C29_FailedWriteBitsNoEffect ==
    (call.op \in WriteBitsOps /\ err.kind = "EOFError") =>
        /\ io.io = call.pre.io
        /\ io.io_pos = call.pre.io_pos
        /\ io.bits_left = call.pre.bits_left
        /\ io.bits = call.pre.bits
        /\ io.bits_le = call.pre.bits_le
        /\ io.bits_write_mode = call.pre.bits_write_mode
        /\ pos(io) = pos(call.pre)

\* A write_bits_int_be raised for want of room on a stream that had five
\* read bits pending at the end of its store: the stream is in write mode
\* and pos() went from the size of the store to one more.
C29_Witness ==
    /\ call.op = "write_bits_int_be"
    /\ err.kind = "EOFError"
    /\ ~call.pre.bits_write_mode
    /\ call.pre.bits_left = 5
    /\ pos(call.pre) = inp.len
    /\ io.bits_write_mode
    /\ io.bits_left = 5
    /\ pos(io) = inp.len + 1

-----------------------------------------------------------------------------
(* SpecPos: the write pass and the read pass of one layout.  The stream w   *)
(* and the stream r are constructed over stores of MaxLen bytes with their  *)
(* cursor at the same offset p; the bit order and the widths of the fields  *)
(* are the input.  Field by field, w writes the field and reports pos(),    *)
(* then r reads the field and reports pos(); the passes stop at the first   *)
(* call that raises.                                                        *)

\* Field widths: none, part of a byte, a whole byte, more than a byte.
PosWidths == {0, 3, 8, 9}

InitPos ==
    /\ \E p \in 0..MaxLen, le \in BOOLEAN, widths \in [1..MaxOps -> PosWidths] :
          /\ streams = [id \in {"w", "r"} |-> KaitaiStream(StreamStore, p, TRUE)]
          /\ inp = [p |-> p, le |-> le, widths |-> widths]
    /\ ret = None
    /\ err = NoErr
    /\ call = NoCall
    /\ log = <<>>
    /\ hist = <<>>

\* The field the passes are at, and the step of it that comes next.
Field == (Len(hist) \div 4) + 1

Step == Len(hist) % 4

Running == Field <= MaxOps /\ \A i \in 1..Len(hist) : hist[i].ok

\* The low n bits all set: the value of the field.
FieldValue(n) == Shl(1, n) - 1

PosWriteBits ==
    /\ Running /\ Step = 0
    /\ LET n == inp.widths[Field]
       IN  \/ ~inp.le /\ WriteBitsIntBe("w", "test", n, FieldValue(n))
           \/ inp.le /\ WriteBitsIntLe("w", "test", n, FieldValue(n))

PosReadBits ==
    /\ Running /\ Step = 2
    /\ LET n == inp.widths[Field]
       IN  \/ ~inp.le /\ ReadBitsIntBe("r", "test", n)
           \/ inp.le /\ ReadBitsIntLe("r", "test", n)

\* pos() of the stream id.
Pos(id, role) == Do(id, "pos", role, NoArgs, Ok(streams[id], pos(streams[id])))

PosOfWriter == Running /\ Step = 1 /\ Pos("w", "test")

PosOfReader == Running /\ Step = 3 /\ Pos("r", "test")

NextPos ==
    \/ PosWriteBits
    \/ PosOfWriter
    \/ PosReadBits
    \/ PosOfReader

SpecPos == InitPos /\ [][NextPos]_vars

RECURSIVE SumTo(_, _)
SumTo(q, n) == IF n = 0 THEN 0 ELSE q[n] + SumTo(q, n - 1)

\* Bits written, or read, by the calls made before the pos() just reported.
BitsSoFar == SumTo(inp.widths, (Len(hist) + 3) \div 4)

\* C15: after write_bits calls totalling k bits, all in one bit order and
\* all returning, on a stream constructed at offset p, pos() is
\* p + ceil(k / 8), and so is pos() on the stream that read the same widths
\* from p; the value pos() returns is the store cursor plus 1 when the stream
\* is in bit-write mode with bits_left > 0 and the store cursor otherwise.
C15_PosConsistent ==
    (call.op = "pos" /\ (\A i \in 1..Len(hist) : hist[i].ok)) =>
        /\ ret = inp.p + ((BitsSoFar + 7) \div 8)
        /\ call.id = "r" => ret = pos(streams["w"])
        /\ LET s == streams[call.id]
           IN  IF s.bits_write_mode /\ s.bits_left > 0
               THEN ret = s.io_pos + 1
               ELSE ret = s.io_pos

\* Fields of 3, 9 and 0 bits from offset 0: twelve bits, the writer has
\* stored one byte and holds four bits, the reader has consumed two bytes,
\* and both report 2.
C15_Witness ==
    /\ call.op = "pos"
    /\ call.id = "r"
    /\ Len(hist) = 12
    /\ inp.p = 0
    /\ SubSeq(inp.widths, 1, 3) = <<3, 9, 0>>
    /\ ret = 2
    /\ streams["w"].io_pos = 1
    /\ streams["w"].bits_left = 4
    /\ streams["r"].io_pos = 2

-----------------------------------------------------------------------------
(* SpecReadBits: a run of bit reads in one bit order.  The stream is        *)
(* constructed over a store of MaxLen bytes with its cursor at p; the bit   *)
(* order and the widths of the reads are the input.  The reads stop at the  *)
(* first one that raises.                                                   *)

\* Store bytes that read differently from either end: 00000001, 10000000,
\* 10110100.
ReadStoreBytes == {1, 128, 180}

InitReadBits ==
    /\ \E store \in [1..MaxLen -> ReadStoreBytes], p \in 0..1, le \in BOOLEAN,
          widths \in [1..MaxOps -> PosWidths] :
          /\ streams = [id \in {"io"} |-> KaitaiStream(store, p, TRUE)]
          /\ inp = [p |-> p, le |-> le, widths |-> widths]
    /\ ret = None
    /\ err = NoErr
    /\ call = NoCall
    /\ log = <<>>
    /\ hist = <<>>

ReadNextBits ==
    /\ Len(hist) < MaxOps
    /\ \A i \in 1..Len(hist) : hist[i].ok
    /\ LET n == inp.widths[Len(hist) + 1]
       IN  \/ ~inp.le /\ ReadBitsIntBe("io", "test", n)
           \/ inp.le /\ ReadBitsIntLe("io", "test", n)

NextReadBits == ReadNextBits

SpecReadBits == InitReadBits /\ [][NextReadBits]_vars

\* The byte of the store holding the bit at offset off from the start p.
ByteAt(off) == io.io[inp.p + (off \div 8) + 1]

\* The stream bit at offset off, the bits of a byte numbered from its most
\* significant bit.
StreamBitBe(off) == BitOf(ByteAt(off), 7 - (off % 8))

\* The stream bit at offset off, the bits of a byte numbered from its least
\* significant bit.
StreamBitLe(off) == BitOf(ByteAt(off), off % 8)

\* The integer whose binary digits, most significant first, are the n stream
\* bits from offset off.
RECURSIVE DigitsBe(_, _)
DigitsBe(off, n) ==
    IF n = 0 THEN 0 ELSE 2 * DigitsBe(off, n - 1) + StreamBitBe(off + n - 1)

\* Bits consumed by the reads before the last one, and by all of them.
BitsBefore == SumTo(inp.widths, Len(hist) - 1)

BitsRead == SumTo(inp.widths, Len(hist))

AllReturned == \A i \in 1..Len(hist) : hist[i].ok

\* C22: the i-th read_bits_int_be of a run started byte-aligned, every read
\* returning, returns the integer whose binary digits are the stream bits at
\* offsets [n1 + .. + n(i-1), n1 + .. + ni), most significant first, and
\* leaves the store cursor ceil((n1 + .. + ni) / 8) bytes after the start.
C22_ReadBitsBe ==
    (call.op = "read_bits_int_be" /\ AllReturned) =>
        /\ ret = DigitsBe(BitsBefore, call.args.n)
        /\ io.io_pos = inp.p + ((BitsRead + 7) \div 8)

\* Reads of 3, 9 and 3 bits over 10110100 00000001 ...: the third returns
\* bits 12..14, 000, after 101 and 101000000.
C22_Witness ==
    /\ call.op = "read_bits_int_be"
    /\ AllReturned
    /\ Len(hist) = 3
    /\ inp.p = 0
    /\ SubSeq(inp.widths, 1, 3) = <<3, 9, 3>>
    /\ SubSeq(io.io, 1, 2) = <<180, 1>>
    /\ ret = 0
    /\ io.io_pos = 2
    /\ io.bits_left = 1 /\ io.bits = 1

\* C23: the i-th read_bits_int_le of a run started byte-aligned, every read
\* returning, returns a value below 2^ni whose bit j is the stream bit at
\* offset n1 + .. + n(i-1) + j, and leaves the store cursor
\* ceil((n1 + .. + ni) / 8) bytes after the start.
C23_ReadBitsLe ==
    (call.op = "read_bits_int_le" /\ AllReturned) =>
        /\ ret \in 0..(2 ^ call.args.n - 1)
        /\ \A j \in 0..(call.args.n - 1) :
              BitOf(ret, j) = StreamBitLe(BitsBefore + j)
        /\ io.io_pos = inp.p + ((BitsRead + 7) \div 8)

\* Reads of 3 and 9 bits over 10110100 00000001 ...: the second returns the
\* five high bits of the first byte under the four low bits of the second.
C23_Witness ==
    /\ call.op = "read_bits_int_le"
    /\ AllReturned
    /\ Len(hist) = 2
    /\ inp.p = 0
    /\ SubSeq(inp.widths, 1, 2) = <<3, 9>>
    /\ SubSeq(io.io, 1, 2) = <<180, 1>>
    /\ ret = 22 + 32
    /\ io.io_pos = 2
    /\ io.bits_left = 4

====
